---- MODULE Spec2Model ----
(***************************************************************************)
(* Hotel audit management system: the Query Library (DatabaseQueries), the *)
(* Query Builder and the AI endpoints, modelled as state machines over the *)
(* tables they read and write.                                             *)
(*                                                                         *)
(* A nullable column or an optional argument is a sequence of length at    *)
(* most one: None is SQL NULL / Python None, Some(v) a present value.      *)
(* A datetime is a number of ticks; a day is TicksPerDay ticks.            *)
(***************************************************************************)
EXTENDS Integers, Sequences, FiniteSets, TLC

VARIABLES now, users, properties, audits, items, serial, requests, last

vars == <<now, users, properties, audits, items, serial, requests, last>>

----------------------------------------------------------------------------
(* Bounds of the model *)

MaxProperties == 2
TicksPerDay == 2
MaxAudits == 2
MaxItems == 2
MaxCriteria == 2

(* Program constants *)

GreenThreshold == 80
AmberThreshold == 60
AuditIntervalDays == 90
RetentionDays == 1095
RiskAmberDays == 90
RiskStaleDays == 180

----------------------------------------------------------------------------
(* Nullable values and SQL comparisons.  A comparison with NULL is unknown, *)
(* and a WHERE clause or a CASE branch takes a row only when its condition  *)
(* is true, so each operator below is "the comparison is true".             *)

None == <<>>
Some(v) == <<v>>

SqlEq(a, b) == a # None /\ b # None /\ a[1] = b[1]
SqlLt(a, b) == a # None /\ b # None /\ a[1] < b[1]
SqlGt(a, b) == a # None /\ b # None /\ a[1] > b[1]
SqlLe(a, b) == a # None /\ b # None /\ a[1] <= b[1]
SqlGe(a, b) == a # None /\ b # None /\ a[1] >= b[1]
SqlIn(a, S) == a # None /\ a[1] \in S

(* timedelta(days=d) in ticks, and datetime.utcnow().date() as the datetime *)
(* of that day's midnight (what a date is when compared with a timestamp).  *)
Days(d) == d * TicksPerDay
Today(t) == (t \div TicksPerDay) * TicksPerDay

(* func.date(timestamp) and current_date, as a day number *)
DayOf(t) == t \div TicksPerDay

(* The instants at which the clock is read: the ticks of each base day *)
InstantsFrom(bases) ==
    { Days(b) + k : b \in bases, k \in 0..(TicksPerDay - 1) }

IsPermutationOf(s, S) ==
    /\ Len(s) = Cardinality(S)
    /\ { s[i] : i \in 1..Len(s) } = S

SeqsOver(S) ==
    { s \in [1..Cardinality(S) -> S] : IsPermutationOf(s, S) }

----------------------------------------------------------------------------
(* Property table.  A row carries the columns the operations below read or   *)
(* write; name, location, region, image and created_at are set once by      *)
(* create_property and never read or written again.                         *)

Scores == {59, 60, 79, 80}
CreateStatuses == {"green", "amber", "red"}
PropertyInstants == InstantsFrom({0, AuditIntervalDays, AuditIntervalDays + 1})

PropertyIds == DOMAIN properties

(* Mutation: the thresholds compared with > instead of >= *)
PropertyStatusFor_strict(score) ==
    IF score > GreenThreshold THEN "green"
    ELSE IF score > AmberThreshold THEN "amber"
    ELSE "red"

(* The if / elif / else of update_property_status *)
PropertyStatusFor(score) ==
    IF score >= GreenThreshold THEN "green"
    ELSE IF score >= AmberThreshold THEN "amber"
    ELSE "red"

(* The row create_property inserts *)
NewPropertyRow(id, status) ==
    [ id |-> id,
      status |-> status,
      last_audit_score |-> None,
      next_audit_date |-> None ]

create_property(status) ==
    /\ LET row == NewPropertyRow(Len(properties) + 1, status)
       IN /\ properties' = Append(properties, row)
          /\ last' = [ op |-> "create_property", ret |-> Some(row) ]
    /\ UNCHANGED <<now, users, audits, items, serial, requests>>

(* Mutation: the score and the date are stored, the status is left as it was *)
update_property_status_keepsStatus(property_id, score) ==
    /\ IF property_id \in PropertyIds
       THEN LET row == [ properties[property_id] EXCEPT
                           !.last_audit_score = Some(score),
                           !.next_audit_date = Some(now + Days(AuditIntervalDays)) ]
            IN /\ properties' = [ properties EXCEPT ![property_id] = row ]
               /\ last' = [ op |-> "update_property_status",
                            property_id |-> property_id, score |-> score,
                            at |-> now, ret |-> Some(row) ]
       ELSE /\ UNCHANGED properties
            /\ last' = [ op |-> "update_property_status",
                         property_id |-> property_id, score |-> score,
                         at |-> now, ret |-> None ]
    /\ UNCHANGED <<now, users, audits, items, serial, requests>>

update_property_status(property_id, score) ==
    /\ IF property_id \in PropertyIds
       THEN LET row == [ properties[property_id] EXCEPT
                           !.status = PropertyStatusFor(score),
                           !.last_audit_score = Some(score),
                           !.next_audit_date = Some(now + Days(AuditIntervalDays)) ]
            IN /\ properties' = [ properties EXCEPT ![property_id] = row ]
               /\ last' = [ op |-> "update_property_status",
                            property_id |-> property_id, score |-> score,
                            at |-> now, ret |-> Some(row) ]
       ELSE /\ UNCHANGED properties
            /\ last' = [ op |-> "update_property_status",
                         property_id |-> property_id, score |-> score,
                         at |-> now, ret |-> None ]
    /\ UNCHANGED <<now, users, audits, items, serial, requests>>

(* Mutation: the never-audited properties (NULL date) are left out *)
NeedsAudit_noNulls(p, today) ==
    SqlLt(p.next_audit_date, Some(today))

(* WHERE next_audit_date IS NULL OR next_audit_date < today *)
NeedsAudit(p, today) ==
    \/ p.next_audit_date = None
    \/ SqlLt(p.next_audit_date, Some(today))

(* ORDER BY next_audit_date ASC NULLS FIRST *)
NullsFirstLeq(a, b) ==
    IF a = None THEN TRUE
    ELSE IF b = None THEN FALSE
    ELSE a[1] <= b[1]

get_properties_needing_audit ==
    /\ LET today == Today(now)
           hits == { i \in PropertyIds : NeedsAudit(properties[i], today) }
       IN \E s \in SeqsOver(hits) :
            /\ \A i, j \in 1..Len(s) :
                 i < j => NullsFirstLeq(properties[s[i]].next_audit_date,
                                        properties[s[j]].next_audit_date)
            /\ last' = [ op |-> "get_properties_needing_audit",
                         at |-> now, ret |-> s ]
    /\ UNCHANGED <<now, users, properties, audits, items, serial, requests>>

(* UPDATE properties SET next_audit_date = now + 90 days                    *)
(* WHERE next_audit_date < today                                            *)
(* Mutation: a date equal to today counts as passed too *)
ScheduleIsDue_inclusive(p, today) == SqlLe(p.next_audit_date, Some(today))

ScheduleIsDue(p, today) == SqlLt(p.next_audit_date, Some(today))

update_property_audit_schedules ==
    /\ LET today == Today(now)
           due == { i \in PropertyIds : ScheduleIsDue(properties[i], today) }
       IN /\ properties' =
               [ i \in PropertyIds |->
                   IF i \in due
                   THEN [ properties[i] EXCEPT
                            !.next_audit_date = Some(now + Days(AuditIntervalDays)) ]
                   ELSE properties[i] ]
          /\ last' = [ op |-> "update_property_audit_schedules",
                       at |-> now, ret |-> Cardinality(due) ]
    /\ UNCHANGED <<now, users, audits, items, serial, requests>>

(* The clock moves forward to a later instant *)
Advance(instants) ==
    /\ \E t \in instants : t > now /\ now' = t
    /\ last' = [ op |-> "advance" ]
    /\ UNCHANGED <<users, properties, audits, items, serial, requests>>

----------------------------------------------------------------------------
(* The property operations called in any order *)

InitProperty ==
    /\ now = 0
    /\ properties = <<>>
    /\ audits = <<>>
    /\ items = <<>>
    /\ serial = [ audits |-> 0, items |-> 0 ]
    /\ users = <<>>
    /\ requests = <<>>
    /\ last = [ op |-> "init" ]

AdvanceProperty == Advance(PropertyInstants)
CreateProperty ==
    /\ Len(properties) < MaxProperties
    /\ \E st \in CreateStatuses : create_property(st)
UpdatePropertyStatus ==
    \E id \in 1..(MaxProperties + 1), sc \in Scores : update_property_status(id, sc)

NextProperty ==
    \/ AdvanceProperty
    \/ CreateProperty
    \/ UpdatePropertyStatus
    \/ get_properties_needing_audit
    \/ update_property_audit_schedules

SpecProperty == InitProperty /\ [][NextProperty]_vars

----------------------------------------------------------------------------
(* Audit table.  audits maps the id of each stored audit to its row; ids     *)
(* come from a sequence and are not reused.  A JSON column (findings,       *)
(* action_plan) holds a dict, modelled as the set of its keys.              *)

AuditIds == DOMAIN audits

(* Python truth value of an optional string / dict argument *)
TruthyStr(a) == a # None /\ a[1] # ""
TruthyDict(a) == a # None /\ a[1] # {}

(* The row create_audit inserts: every column it does not set is NULL *)
NewAuditRow(id, property_id, auditor_id, reviewer_id, status, t) ==
    [ id |-> id,
      property_id |-> property_id,
      auditor_id |-> auditor_id,
      reviewer_id |-> reviewer_id,
      status |-> status,
      overall_score |-> None,
      cleanliness_score |-> None,
      branding_score |-> None,
      operational_score |-> None,
      compliance_zone |-> None,
      findings |-> None,
      action_plan |-> None,
      ai_report |-> None,
      ai_insights |-> None,
      submitted_at |-> None,
      reviewed_at |-> None,
      created_at |-> t ]

create_audit(property_id, auditor_id, reviewer_id, status) ==
    /\ LET id == serial.audits + 1
           row == NewAuditRow(id, property_id, auditor_id, reviewer_id, status, now)
       IN /\ audits' = [ i \in AuditIds \cup {id} |->
                           IF i = id THEN row ELSE audits[i] ]
          /\ serial' = [ serial EXCEPT !.audits = id ]
          /\ last' = [ op |-> "create_audit", ret |-> Some(row) ]
    /\ UNCHANGED <<now, users, properties, items, requests>>

(* Mutation: the optional scores tested for truth, so that 0 is not written *)
ScoredRow_truthyScores(row, a, t) ==
    [ row EXCEPT
        !.overall_score = Some(a.overall_score),
        !.cleanliness_score =
            IF a.cleanliness_score # None /\ a.cleanliness_score # Some(0)
            THEN a.cleanliness_score ELSE @,
        !.branding_score =
            IF a.branding_score # None /\ a.branding_score # Some(0)
            THEN a.branding_score ELSE @,
        !.operational_score =
            IF a.operational_score # None /\ a.operational_score # Some(0)
            THEN a.operational_score ELSE @,
        !.compliance_zone =
            IF TruthyStr(a.compliance_zone) THEN a.compliance_zone ELSE @,
        !.findings =
            IF TruthyDict(a.findings) THEN a.findings ELSE @,
        !.action_plan =
            IF TruthyDict(a.action_plan) THEN a.action_plan ELSE @,
        !.status = "submitted",
        !.submitted_at = Some(t) ]

(* The assignments of update_audit_scores to the row it found *)
ScoredRow(row, a, t) ==
    [ row EXCEPT
        !.overall_score = Some(a.overall_score),
        !.cleanliness_score =
            IF a.cleanliness_score # None THEN a.cleanliness_score ELSE @,
        !.branding_score =
            IF a.branding_score # None THEN a.branding_score ELSE @,
        !.operational_score =
            IF a.operational_score # None THEN a.operational_score ELSE @,
        !.compliance_zone =
            IF TruthyStr(a.compliance_zone) THEN a.compliance_zone ELSE @,
        !.findings =
            IF TruthyDict(a.findings) THEN a.findings ELSE @,
        !.action_plan =
            IF TruthyDict(a.action_plan) THEN a.action_plan ELSE @,
        !.status = "submitted",
        !.submitted_at = Some(t) ]

update_audit_scores(audit_id, a) ==
    /\ IF audit_id \in AuditIds
       THEN LET row == ScoredRow(audits[audit_id], a, now)
            IN /\ audits' = [ audits EXCEPT ![audit_id] = row ]
               /\ last' = [ op |-> "update_audit_scores", audit_id |-> audit_id,
                            args |-> a, at |-> now, ret |-> Some(row) ]
       ELSE /\ UNCHANGED audits
            /\ last' = [ op |-> "update_audit_scores", audit_id |-> audit_id,
                         args |-> a, at |-> now, ret |-> None ]
    /\ UNCHANGED <<now, users, properties, items, serial, requests>>

(* Mutation: the review also clears the submission time *)
ReviewedRow_clearsSubmission(row, reviewer_id, t) ==
    [ row EXCEPT
        !.reviewer_id = Some(reviewer_id),
        !.status = "reviewed",
        !.reviewed_at = Some(t),
        !.submitted_at = None ]

(* The assignments of assign_reviewer to the row it found *)
ReviewedRow(row, reviewer_id, t) ==
    [ row EXCEPT
        !.reviewer_id = Some(reviewer_id),
        !.status = "reviewed",
        !.reviewed_at = Some(t) ]

(* Mutation: an audit that has a reviewer keeps it *)
assign_reviewer_keepsReviewer(audit_id, reviewer_id) ==
    /\ IF audit_id \in AuditIds
       THEN LET old == audits[audit_id]
                row == ReviewedRow(old,
                                   IF old.reviewer_id # None
                                   THEN old.reviewer_id[1] ELSE reviewer_id,
                                   now)
            IN /\ audits' = [ audits EXCEPT ![audit_id] = row ]
               /\ last' = [ op |-> "assign_reviewer", audit_id |-> audit_id,
                            reviewer_id |-> reviewer_id, at |-> now,
                            ret |-> Some(row) ]
       ELSE /\ UNCHANGED audits
            /\ last' = [ op |-> "assign_reviewer", audit_id |-> audit_id,
                         reviewer_id |-> reviewer_id, at |-> now, ret |-> None ]
    /\ UNCHANGED <<now, users, properties, items, serial, requests>>

assign_reviewer(audit_id, reviewer_id) ==
    /\ IF audit_id \in AuditIds
       THEN LET row == ReviewedRow(audits[audit_id], reviewer_id, now)
            IN /\ audits' = [ audits EXCEPT ![audit_id] = row ]
               /\ last' = [ op |-> "assign_reviewer", audit_id |-> audit_id,
                            reviewer_id |-> reviewer_id, at |-> now,
                            ret |-> Some(row) ]
       ELSE /\ UNCHANGED audits
            /\ last' = [ op |-> "assign_reviewer", audit_id |-> audit_id,
                         reviewer_id |-> reviewer_id, at |-> now, ret |-> None ]
    /\ UNCHANGED <<now, users, properties, items, serial, requests>>

----------------------------------------------------------------------------
(* The workflow of one audit: it is created once, then scored and reviewed   *)
(* in any order and any number of times; calls with an id that matches no   *)
(* row are made too.  Each workflow operation reads and writes only the row *)
(* with the given id.  The three optional scores of one call are drawn      *)
(* together, and so are the zone and the two dicts.                         *)

AuditInstants == InstantsFrom({0})
CreateAuditStatuses == {"scheduled", "completed"}
OverallScores == {50, 90}
OptionalScores == {None, Some(0), Some(85)}
ReviewerIds == {7, 8}

(* What a call supplies for compliance_zone and for the two dicts: nothing, *)
(* empty values, or filled values.                                          *)
OptionalPayloads ==
    { [ compliance_zone |-> None, dict |-> None ],
      [ compliance_zone |-> Some(""), dict |-> Some({}) ],
      [ compliance_zone |-> Some("green"), dict |-> Some({"note"}) ],
      [ compliance_zone |-> Some("red"), dict |-> Some({"note"}) ] }

ScoreArgs ==
    { [ overall_score |-> o, cleanliness_score |-> c, branding_score |-> c,
        operational_score |-> c, compliance_zone |-> p.compliance_zone,
        findings |-> p.dict, action_plan |-> p.dict ] :
      o \in OverallScores, c \in OptionalScores, p \in OptionalPayloads }

InitAudit ==
    /\ now = 0
    /\ properties = <<>>
    /\ audits = <<>>
    /\ items = <<>>
    /\ serial = [ audits |-> 0, items |-> 0 ]
    /\ users = <<>>
    /\ requests = <<>>
    /\ last = [ op |-> "init" ]

AdvanceAudit == Advance(AuditInstants)
CreateAudit ==
    /\ AuditIds = {}
    /\ \E st \in CreateAuditStatuses : create_audit(1, None, None, st)
UpdateAuditScores ==
    \E id \in AuditIds \cup {serial.audits + 1}, a \in ScoreArgs :
        update_audit_scores(id, a)
AssignReviewer ==
    \E id \in AuditIds \cup {serial.audits + 1}, r \in ReviewerIds :
        assign_reviewer(id, r)

NextAudit ==
    \/ AdvanceAudit
    \/ CreateAudit
    \/ UpdateAuditScores
    \/ AssignReviewer

SpecAudit == InitAudit /\ [][NextAudit]_vars

----------------------------------------------------------------------------
(* The workflow of an audit created with the default status: create_audit   *)
(* called without a status argument inserts the row as "scheduled".         *)

DefaultStatus == "scheduled"

CreateDefaultAudit ==
    /\ AuditIds = {}
    /\ create_audit(1, None, None, DefaultStatus)

NextWorkflow ==
    \/ AdvanceAudit
    \/ CreateDefaultAudit
    \/ UpdateAuditScores
    \/ AssignReviewer

SpecWorkflow == InitAudit /\ [][NextWorkflow]_vars

----------------------------------------------------------------------------
(* Audit item table and the retention cleanup.  items maps the id of each   *)
(* stored item to its row; audit_id is a foreign key to audits.             *)

ItemIds == DOMAIN items

create_audit_items(items_data) ==
    /\ LET n == Len(items_data)
           first == serial.items
           row(k) == [ id |-> first + k,
                       audit_id |-> items_data[k].audit_id,
                       score |-> None,
                       comments |-> None,
                       ai_analysis |-> None,
                       ai_suggested_score |-> None,
                       created_at |-> now ]
           new == { first + k : k \in 1..n }
       IN /\ items' = [ i \in ItemIds \cup new |->
                          IF i \in new THEN row(i - first) ELSE items[i] ]
          /\ serial' = [ serial EXCEPT !.items = first + n ]
          /\ last' = [ op |-> "create_audit_items",
                       ret |-> [ k \in 1..n |-> row(k) ] ]
    /\ UNCHANGED <<now, users, properties, audits, requests>>

(* Mutation: the items selected by their own created_at *)
OldAuditItems_byOwnDate(itemTable, auditTable, cutoff_date) ==
    { i \in DOMAIN itemTable : itemTable[i].created_at < cutoff_date }

(* query(AuditItem).join(Audit).filter(Audit.created_at < cutoff_date):     *)
(* the items whose parent audit, in the table as it is then, is old.        *)
OldAuditItems(itemTable, auditTable, cutoff_date) ==
    { i \in DOMAIN itemTable :
        \E a \in DOMAIN auditTable :
            /\ itemTable[i].audit_id = a
            /\ auditTable[a].created_at < cutoff_date }

(* query(Audit).filter(Audit.created_at < cutoff_date) *)
OldAudits(auditTable, cutoff_date) ==
    { a \in DOMAIN auditTable : auditTable[a].created_at < cutoff_date }

Without(table, ids) == [ i \in (DOMAIN table) \ ids |-> table[i] ]

(* Mutation: the audits deleted first, the items joined with what is left *)
CleanupResult_auditsFirst(itemTable, auditTable, cutoff_date) ==
    LET old_audits == OldAudits(auditTable, cutoff_date)
        auditsAfter == Without(auditTable, old_audits)
        old_audit_items == OldAuditItems(itemTable, auditsAfter, cutoff_date)
    IN [ items |-> Without(itemTable, old_audit_items),
         audits |-> auditsAfter,
         ret |-> [ deleted_items |-> Cardinality(old_audit_items),
                   deleted_audits |-> Cardinality(old_audits) ] ]

(* The two bulk deletes of cleanup_old_data in their order, and the counts *)
CleanupResult(itemTable, auditTable, cutoff_date) ==
    LET old_audit_items == OldAuditItems(itemTable, auditTable, cutoff_date)
        itemsAfter == Without(itemTable, old_audit_items)
        old_audits == OldAudits(auditTable, cutoff_date)
    IN [ items |-> itemsAfter,
         audits |-> Without(auditTable, old_audits),
         ret |-> [ deleted_items |-> Cardinality(old_audit_items),
                   deleted_audits |-> Cardinality(old_audits) ] ]

cleanup_old_data(days) ==
    /\ LET cutoff_date == now - Days(days)
           r == CleanupResult(items, audits, cutoff_date)
       IN /\ items' = r.items
          /\ audits' = r.audits
          /\ last' = [ op |-> "cleanup_old_data", days |-> days, at |-> now,
                       ret |-> r.ret ]
    /\ UNCHANGED <<now, users, properties, serial, requests>>

----------------------------------------------------------------------------
(* Audits and their items created over time, and the cleanup run with a     *)
(* one-day and with the default retention.                                  *)

CleanupInstants == InstantsFrom({0, 1, RetentionDays})
CleanupDays == {1, RetentionDays}

InitCleanup ==
    /\ now = 0
    /\ properties = <<>>
    /\ audits = <<>>
    /\ items = <<>>
    /\ serial = [ audits |-> 0, items |-> 0 ]
    /\ users = <<>>
    /\ requests = <<>>
    /\ last = [ op |-> "init" ]

AdvanceCleanup == Advance(CleanupInstants)
CreateAuditForCleanup ==
    /\ serial.audits < MaxAudits
    /\ create_audit(1, None, None, "scheduled")
CreateAuditItems ==
    \E n \in 1..(MaxItems - serial.items) :
        \E ids \in [1..n -> AuditIds] :
            create_audit_items([ k \in 1..n |-> [ audit_id |-> ids[k] ] ])
CleanupOldData == \E d \in CleanupDays : cleanup_old_data(d)

NextCleanup ==
    \/ AdvanceCleanup
    \/ CreateAuditForCleanup
    \/ CreateAuditItems
    \/ CleanupOldData

SpecCleanup == InitCleanup /\ [][NextCleanup]_vars

----------------------------------------------------------------------------
(* The cleanup when its second bulk delete raises.  Both deletes are issued *)
(* on the one session of the DatabaseQueries object and the only commit     *)
(* comes after the second delete: when that delete raises, the first has    *)
(* been executed in the session's open transaction and the commit is not    *)
(* reached.  items and audits are the tables as the session sees them; while *)
(* a transaction is open, last.committed holds the tables as they are in    *)
(* the database.  The commit at the end of any later operation on the same  *)
(* session makes what the session sees the content of the database.         *)

InTransaction == last.op = "cleanup_old_data_raises"

Committed ==
    IF InTransaction
    THEN last.committed
    ELSE [ items |-> items, audits |-> audits ]

(* Mutation: each bulk delete committed on its own *)
FailedCleanupResult_commitPerDelete(itemTable, auditTable, cutoff_date, db) ==
    LET old_audit_items == OldAuditItems(itemTable, auditTable, cutoff_date)
    IN [ items |-> Without(itemTable, old_audit_items),
         audits |-> auditTable,
         committed |-> [ items |-> Without(itemTable, old_audit_items),
                         audits |-> auditTable ] ]

(* The first delete executed, the second raising; db is the database        *)
FailedCleanupResult(itemTable, auditTable, cutoff_date, db) ==
    LET old_audit_items == OldAuditItems(itemTable, auditTable, cutoff_date)
    IN [ items |-> Without(itemTable, old_audit_items),
         audits |-> auditTable,
         committed |-> db ]

cleanup_old_data_raises(days) ==
    /\ LET cutoff_date == now - Days(days)
           r == FailedCleanupResult(items, audits, cutoff_date, Committed)
       IN /\ items' = r.items
          /\ audits' = r.audits
          /\ last' = [ op |-> "cleanup_old_data_raises", days |-> days,
                       at |-> now, committed |-> r.committed ]
    /\ UNCHANGED <<now, users, properties, serial, requests>>

(* The session is rolled back or closed with its transaction open: what it  *)
(* had not committed is discarded.                                          *)
rollback ==
    /\ InTransaction
    /\ items' = Committed.items
    /\ audits' = Committed.audits
    /\ last' = [ op |-> "rollback" ]
    /\ UNCHANGED <<now, users, properties, serial, requests>>

(* The cleanup succeeding or failing among the other operations of the same *)
(* session; the clock is read between transactions.                         *)
FailureInstants == InstantsFrom({0, RetentionDays})
AdvanceBetweenTransactions == ~InTransaction /\ Advance(FailureInstants)
CleanupOldDataRaises == \E d \in CleanupDays : cleanup_old_data_raises(d)

NextCleanupFailure ==
    \/ AdvanceBetweenTransactions
    \/ CreateAuditForCleanup
    \/ CreateAuditItems
    \/ CleanupOldData
    \/ CleanupOldDataRaises
    \/ rollback

SpecCleanupFailure == InitCleanup /\ [][NextCleanupFailure]_vars

----------------------------------------------------------------------------
(* User table, and the writes that store the output of the AI service.      *)
(* users is the sequence of the stored users, a user's id being its         *)
(* position (users are never deleted).  A dict is the set of its keys.      *)

UserIds == DOMAIN users

(* The password hash is opaque: all that is known of it is the password it  *)
(* was made from.                                                           *)
get_password_hash(password) == <<"hash", password>>

NewUserRow(id, username, password, role, name, email) ==
    [ id |-> id,
      username |-> username,
      password |-> get_password_hash(password),
      role |-> role,
      name |-> name,
      email |-> email ]

create_user(username, password, role, name, email) ==
    /\ LET row == NewUserRow(Len(users) + 1, username, password, role, name, email)
       IN /\ users' = Append(users, row)
          /\ last' = [ op |-> "create_user", ret |-> Some(row) ]
    /\ UNCHANGED <<now, properties, audits, items, serial, requests>>

(* for key, value in kwargs.items(): setattr(user, key, value) *)
WithAttrs(row, kwargs) ==
    [ f \in DOMAIN row |-> IF f \in DOMAIN kwargs THEN kwargs[f] ELSE row[f] ]

(* Mutation: the filter on the id dropped, first() giving the first user *)
update_user_anyRow(user_id, kwargs) ==
    /\ LET found == IF user_id \in UserIds THEN {user_id} ELSE UserIds \cap {1}
       IN IF found # {}
          THEN LET id == CHOOSE i \in found : TRUE
                   row == WithAttrs(users[id], kwargs)
               IN /\ users' = [ users EXCEPT ![id] = row ]
                  /\ last' = [ op |-> "update_user", user_id |-> user_id,
                               kwargs |-> kwargs, ret |-> Some(row) ]
          ELSE /\ UNCHANGED users
               /\ last' = [ op |-> "update_user", user_id |-> user_id,
                            kwargs |-> kwargs, ret |-> None ]
    /\ UNCHANGED <<now, properties, audits, items, serial, requests>>

update_user(user_id, kwargs) ==
    /\ IF user_id \in UserIds
       THEN LET row == WithAttrs(users[user_id], kwargs)
            IN /\ users' = [ users EXCEPT ![user_id] = row ]
               /\ last' = [ op |-> "update_user", user_id |-> user_id,
                            kwargs |-> kwargs, ret |-> Some(row) ]
       ELSE /\ UNCHANGED users
            /\ last' = [ op |-> "update_user", user_id |-> user_id,
                         kwargs |-> kwargs, ret |-> None ]
    /\ UNCHANGED <<now, properties, audits, items, serial, requests>>

(* The assignments of update_audit_item_with_ai to the item it found *)
AiItemRow(row, ai_analysis, ai_suggested_score, score, comments) ==
    [ row EXCEPT
        !.ai_analysis = Some(ai_analysis),
        !.ai_suggested_score = Some(ai_suggested_score),
        !.score = IF score # None THEN score ELSE @,
        !.comments = IF TruthyStr(comments) THEN comments ELSE @ ]

update_audit_item_with_ai(item_id, ai_analysis, ai_suggested_score, score, comments) ==
    /\ IF item_id \in ItemIds
       THEN LET row == AiItemRow(items[item_id], ai_analysis, ai_suggested_score,
                                 score, comments)
            IN /\ items' = [ items EXCEPT ![item_id] = row ]
               /\ last' = [ op |-> "update_audit_item_with_ai",
                            item_id |-> item_id, ret |-> Some(row) ]
       ELSE /\ UNCHANGED items
            /\ last' = [ op |-> "update_audit_item_with_ai",
                         item_id |-> item_id, ret |-> None ]
    /\ UNCHANGED <<now, users, properties, audits, serial, requests>>

update_audit_with_ai_report(audit_id, ai_report, ai_insights) ==
    /\ IF audit_id \in AuditIds
       THEN LET row == [ audits[audit_id] EXCEPT
                           !.ai_report = Some(ai_report),
                           !.ai_insights = Some(ai_insights) ]
            IN /\ audits' = [ audits EXCEPT ![audit_id] = row ]
               /\ last' = [ op |-> "update_audit_with_ai_report",
                            audit_id |-> audit_id, ret |-> Some(row) ]
       ELSE /\ UNCHANGED audits
            /\ last' = [ op |-> "update_audit_with_ai_report",
                         audit_id |-> audit_id, ret |-> None ]
    /\ UNCHANGED <<now, users, properties, items, serial, requests>>

----------------------------------------------------------------------------
(* The writes addressed by an id, each called with the id of the stored row *)
(* and with an id that matches no row, on a database that holds at most one *)
(* row of each table.                                                       *)

UserKwargs == { [ role |-> "reviewer" ], [ name |-> "B", email |-> "b@x" ] }
WriteScoreArgs ==
    { a \in ScoreArgs : /\ a.overall_score = 90
                        /\ a.cleanliness_score = Some(85)
                        /\ a.compliance_zone = Some("green") }
AiDicts == { {"summary"} }
OptionalComments == { None, Some("ok") }

InitWrites ==
    /\ now = 0
    /\ users = <<>>
    /\ properties = <<>>
    /\ audits = <<>>
    /\ items = <<>>
    /\ serial = [ audits |-> 0, items |-> 0 ]
    /\ requests = <<>>
    /\ last = [ op |-> "init" ]

CreateUser ==
    /\ users = <<>>
    /\ create_user("alice", "secret", "auditor", "A", "a@x")
CreatePropertyForWrites ==
    /\ properties = <<>>
    /\ create_property("green")
CreateAuditForWrites ==
    /\ serial.audits = 0
    /\ create_audit(1, None, None, DefaultStatus)
CreateItemForWrites ==
    /\ serial.items = 0
    /\ \E a \in AuditIds : create_audit_items(<<[ audit_id |-> a ]>>)

UpdateUser ==
    \E id \in UserIds \cup {Len(users) + 1}, kw \in UserKwargs :
        update_user(id, kw)
UpdatePropertyStatusById ==
    \E id \in PropertyIds \cup {Len(properties) + 1} :
        update_property_status(id, AmberThreshold)
UpdateAuditScoresById ==
    \E id \in AuditIds \cup {serial.audits + 1}, a \in WriteScoreArgs :
        update_audit_scores(id, a)
AssignReviewerById ==
    \E id \in AuditIds \cup {serial.audits + 1} :
        assign_reviewer(id, 7)
UpdateAuditItemWithAi ==
    \E id \in ItemIds \cup {serial.items + 1}, d \in AiDicts,
       c \in OptionalComments :
        update_audit_item_with_ai(id, d, 70, None, c)
UpdateAuditWithAiReport ==
    \E id \in AuditIds \cup {serial.audits + 1}, d \in AiDicts :
        update_audit_with_ai_report(id, d, d)

NextWrites ==
    \/ CreateUser
    \/ CreatePropertyForWrites
    \/ CreateAuditForWrites
    \/ CreateItemForWrites
    \/ UpdateUser
    \/ UpdatePropertyStatusById
    \/ UpdateAuditScoresById
    \/ AssignReviewerById
    \/ UpdateAuditItemWithAi
    \/ UpdateAuditWithAiReport

SpecWrites == InitWrites /\ [][NextWrites]_vars

----------------------------------------------------------------------------
(* update_property_status run by concurrent requests.  Each request has its *)
(* own session and goes through the steps of the function: the query that   *)
(* loads the row, the assignments to the loaded object, and the commit,     *)
(* which flushes an UPDATE of the columns whose assigned value differs from *)
(* the loaded one and ends the transaction.  There is no lock and no        *)
(* version check, so the steps of two requests interleave freely.           *)

RequestIds == {"A", "B"}

(* property = self.db.query(Property).filter(Property.id == property_id)    *)
(*                .first()                                                  *)
update_property_status_query(r, property_id, score) ==
    /\ requests[r].pc = "idle"
    /\ requests' = [ requests EXCEPT ![r] =
                       [ pc |-> "loaded", property_id |-> property_id,
                         score |-> score,
                         property |-> IF property_id \in PropertyIds
                                      THEN Some(properties[property_id])
                                      ELSE None ] ]
    /\ last' = [ op |-> "query", request |-> r ]
    /\ UNCHANGED <<now, users, properties, audits, items, serial>>

(* The body of "if property:": the three assignments to the loaded object;  *)
(* without a row the function returns None.                                 *)
update_property_status_assign(r) ==
    /\ requests[r].pc = "loaded"
    /\ LET q == requests[r]
       IN IF q.property # None
          THEN requests' = [ requests EXCEPT ![r] =
                 [ pc |-> "assigned", property_id |-> q.property_id,
                   score |-> q.score,
                   loaded |-> q.property[1],
                   property |->
                     [ q.property[1] EXCEPT
                         !.status = PropertyStatusFor(q.score),
                         !.last_audit_score = Some(q.score),
                         !.next_audit_date =
                             Some(now + Days(AuditIntervalDays)) ] ] ]
          ELSE requests' = [ requests EXCEPT ![r] =
                 [ pc |-> "done", property_id |-> q.property_id,
                   score |-> q.score, ret |-> None ] ]
    /\ last' = [ op |-> "assign", request |-> r ]
    /\ UNCHANGED <<now, users, properties, audits, items, serial>>

(* The row after the UPDATE the flush emits: the columns whose value on the *)
(* object differs from the loaded value are set, the others are left as     *)
(* they are stored.                                                         *)
Flushed(stored, loaded, object) ==
    [ c \in DOMAIN stored |->
        IF object[c] # loaded[c] THEN object[c] ELSE stored[c] ]

(* self.db.commit(); self.db.refresh(property); return property *)
update_property_status_commit(r) ==
    /\ requests[r].pc = "assigned"
    /\ LET q == requests[r]
           row == Flushed(properties[q.property_id], q.loaded, q.property)
       IN /\ properties' = [ properties EXCEPT ![q.property_id] = row ]
          /\ requests' = [ requests EXCEPT ![r] =
                 [ pc |-> "done", property_id |-> q.property_id,
                   score |-> q.score, ret |-> Some(row) ] ]
    /\ last' = [ op |-> "commit", request |-> r ]
    /\ UNCHANGED <<now, users, audits, items, serial>>

InitConcurrent ==
    /\ now = 0
    /\ users = <<>>
    /\ properties = <<>>
    /\ audits = <<>>
    /\ items = <<>>
    /\ serial = [ audits |-> 0, items |-> 0 ]
    /\ requests = [ r \in RequestIds |-> [ pc |-> "idle" ] ]
    /\ last = [ op |-> "init" ]

AdvanceConcurrent == Advance(PropertyInstants)
CreatePropertyOnce ==
    /\ properties = <<>>
    /\ \A r \in RequestIds : requests[r].pc = "idle"
    /\ \E st \in CreateStatuses : create_property(st)
Query ==
    \E r \in RequestIds, id \in PropertyIds \cup {Len(properties) + 1},
       sc \in Scores :
        update_property_status_query(r, id, sc)
Assign == \E r \in RequestIds : update_property_status_assign(r)
Commit == \E r \in RequestIds : update_property_status_commit(r)

NextConcurrent ==
    \/ AdvanceConcurrent
    \/ CreatePropertyOnce
    \/ Query
    \/ Assign
    \/ Commit

SpecConcurrent == InitConcurrent /\ [][NextConcurrent]_vars

----------------------------------------------------------------------------
(* Compliance dashboard: aggregates over the properties joined with their   *)
(* audits, restricted to the completed audits.  An average is the pair of   *)
(* the sum and the number of the values averaged.                           *)

(* Mutation: the reviewed audits taken for the completed ones *)
DashboardAudits_reviewed ==
    { a \in AuditIds :
        /\ \E p \in PropertyIds : audits[a].property_id = properties[p].id
        /\ audits[a].status = "reviewed" }

(* select_from(Property).outerjoin(Audit).filter(Audit.status ==            *)
(* 'completed'): the audits of a stored property that are completed (a      *)
(* property without audits gives a row of NULLs, which the filter drops).   *)
DashboardAudits ==
    { a \in AuditIds :
        /\ \E p \in PropertyIds : audits[a].property_id = properties[p].id
        /\ audits[a].status = "completed" }

RECURSIVE SumOfScores(_)
SumOfScores(S) ==
    IF S = {} THEN 0
    ELSE LET a == CHOOSE x \in S : TRUE
         IN audits[a].overall_score[1] + SumOfScores(S \ {a})

(* float(result.avg_overall_score or 0): AVG skips the NULL scores and is   *)
(* NULL when there is none.                                                 *)
AvgOrZero(S) ==
    LET scored == { a \in S : audits[a].overall_score # None }
    IN IF scored = {} \/ SumOfScores(scored) = 0
       THEN [ sum |-> 0, count |-> 1 ]
       ELSE [ sum |-> SumOfScores(scored), count |-> Cardinality(scored) ]

get_compliance_dashboard ==
    /\ LET rows == DashboardAudits
           InZone(z) == { a \in rows : SqlEq(audits[a].compliance_zone, Some(z)) }
       IN last' = [ op |-> "get_compliance_dashboard",
                    ret |-> [ total_properties |->
                                Cardinality({ audits[a].property_id : a \in rows }),
                              total_audits |-> Cardinality(rows),
                              avg_overall_score |-> AvgOrZero(rows),
                              green_audits |-> Cardinality(InZone("green")),
                              amber_audits |-> Cardinality(InZone("amber")),
                              red_audits |-> Cardinality(InZone("red")) ] ]
    /\ UNCHANGED <<now, users, properties, audits, items, serial, requests>>

(* The audit of a stored property, created with the default status, under   *)
(* every operation of the library that writes an audit row, and the         *)
(* dashboard read at any point.                                             *)
NextDashboard ==
    \/ CreatePropertyForWrites
    \/ CreateDefaultAudit
    \/ UpdateAuditScores
    \/ AssignReviewer
    \/ UpdateAuditWithAiReport
    \/ get_compliance_dashboard

SpecDashboard == InitWrites /\ [][NextDashboard]_vars

----------------------------------------------------------------------------
(* Risk assessment: one row per property, joined with its latest audit      *)
(* (the one with the greatest id), classified by the CASE expression.       *)

(* Mutation: the two amber branches in the other order *)
RiskLevel_amberFirst(zone, days) ==
    IF SqlEq(zone, Some("red")) THEN "HIGH"
    ELSE IF SqlEq(zone, Some("amber")) THEN "MEDIUM"
    ELSE IF SqlEq(zone, Some("amber")) /\ SqlGt(days, Some(RiskAmberDays)) THEN "HIGH"
    ELSE IF SqlGt(days, Some(RiskStaleDays)) THEN "MEDIUM"
    ELSE "LOW"

(* The CASE expression labelled risk_level: the first true branch wins *)
RiskLevel(zone, days) ==
    IF SqlEq(zone, Some("red")) THEN "HIGH"
    ELSE IF SqlEq(zone, Some("amber")) /\ SqlGt(days, Some(RiskAmberDays)) THEN "HIGH"
    ELSE IF SqlEq(zone, Some("amber")) THEN "MEDIUM"
    ELSE IF SqlGt(days, Some(RiskStaleDays)) THEN "MEDIUM"
    ELSE "LOW"

(* The CASE expression of ORDER BY *)
ZoneRank(zone) ==
    IF SqlEq(zone, Some("red")) THEN 1
    ELSE IF SqlEq(zone, Some("amber")) THEN 2
    ELSE 3

(* Mutation: the latest audit is the one created last *)
LatestAuditId_byCreatedAt(property_id) ==
    LET own == { a \in AuditIds : audits[a].property_id = property_id }
        newest == { a \in own : \A b \in own : audits[b].created_at <= audits[a].created_at }
    IN IF own = {} THEN None
       ELSE Some(CHOOSE a \in newest : \A b \in newest : b <= a)

(* SELECT property_id, max(id) ... GROUP BY property_id, outer-joined *)
LatestAuditId(property_id) ==
    LET own == { a \in AuditIds : audits[a].property_id = property_id }
    IN IF own = {} THEN None
       ELSE Some(CHOOSE a \in own : \A b \in own : b <= a)

RiskRow(property_id) ==
    LET latest == LatestAuditId(property_id)
        zone == IF latest = None THEN None ELSE audits[latest[1]].compliance_zone
        days == IF latest = None THEN None
                ELSE Some(DayOf(now) - DayOf(audits[latest[1]].created_at))
    IN [ property_id |-> property_id,
         audit_id |-> latest,
         overall_score |-> IF latest = None THEN None
                           ELSE audits[latest[1]].overall_score,
         compliance_zone |-> zone,
         days_since_audit |-> days,
         risk_level |-> RiskLevel(zone, days) ]

(* ORDER BY rank, days_since_audit DESC (NULL sorts first in DESC order) *)
RiskOrderLeq(r1, r2) ==
    IF ZoneRank(r1.compliance_zone) # ZoneRank(r2.compliance_zone)
    THEN ZoneRank(r1.compliance_zone) < ZoneRank(r2.compliance_zone)
    ELSE IF r1.days_since_audit = None THEN TRUE
    ELSE IF r2.days_since_audit = None THEN FALSE
    ELSE r1.days_since_audit[1] >= r2.days_since_audit[1]

get_risk_assessment ==
    /\ \E s \in SeqsOver(PropertyIds) :
         LET rows == [ k \in 1..Len(s) |-> RiskRow(s[k]) ]
         IN /\ \A i, j \in 1..Len(s) : i < j => RiskOrderLeq(rows[i], rows[j])
            /\ last' = [ op |-> "get_risk_assessment", at |-> now, ret |-> rows ]
    /\ UNCHANGED <<now, users, properties, audits, items, serial, requests>>

----------------------------------------------------------------------------
(* The risk assessment read at any time from any database of properties and *)
(* audits: an audit row is as create_audit left it or as a scoring call     *)
(* left it, and audits with greater ids were not created earlier.           *)

RiskDays == {0, 1, RiskAmberDays + 1, RiskStaleDays + 1}
RiskInstants == { Days(d) : d \in RiskDays }
RiskZones == {"green", "amber", "red"}

RiskScoreArgs ==
    { [ overall_score |-> 50, cleanliness_score |-> None, branding_score |-> None,
        operational_score |-> None, compliance_zone |-> Some(z),
        findings |-> None, action_plan |-> None ] : z \in RiskZones }

RiskAuditRows(id, property_ids) ==
    LET fresh == { NewAuditRow(id, p, None, None, "scheduled", t) :
                     p \in property_ids, t \in RiskInstants }
    IN fresh \cup { ScoredRow(r, a, r.created_at) : r \in fresh, a \in RiskScoreArgs }

InitRisk ==
    /\ now \in RiskInstants
    /\ \E n \in 1..MaxProperties :
         properties = [ i \in 1..n |-> NewPropertyRow(i, "green") ]
    /\ \E k \in 0..MaxAudits :
         /\ audits \in [ 1..k -> UNION { RiskAuditRows(i, DOMAIN properties) : i \in 1..k } ]
         /\ \A i \in 1..k : audits[i].id = i /\ audits[i].created_at <= now
         /\ \A i, j \in 1..k : i < j => audits[i].created_at <= audits[j].created_at
         /\ serial = [ audits |-> k, items |-> 0 ]
    /\ items = <<>>
    /\ users = <<>>
    /\ requests = <<>>
    /\ last = [ op |-> "init" ]

AdvanceRisk == Advance(RiskInstants)

NextRisk ==
    \/ AdvanceRisk
    \/ get_risk_assessment

SpecRisk == InitRisk /\ [][NextRisk]_vars

(* The same reads over audits whose ids and creation times need not agree:  *)
(* the id comes from the table's sequence at insert and created_at from the *)
(* clock of the inserting process (or from the inserted row itself), so an  *)
(* audit with a greater id may carry an earlier created_at.                 *)
LatestDays == {0, 1}
LatestInstants == { Days(d) : d \in LatestDays }

LatestAuditRows(id, property_ids) ==
    LET fresh == { NewAuditRow(id, p, None, None, "scheduled", t) :
                     p \in property_ids, t \in LatestInstants }
    IN fresh \cup { ScoredRow(r, a, r.created_at) : r \in fresh, a \in RiskScoreArgs }

InitRiskLatest ==
    /\ now \in RiskInstants
    /\ \E n \in 1..MaxProperties :
         properties = [ i \in 1..n |-> NewPropertyRow(i, "green") ]
    /\ \E k \in 0..MaxAudits :
         /\ audits \in [ 1..k -> UNION { LatestAuditRows(i, DOMAIN properties) : i \in 1..k } ]
         /\ \A i \in 1..k : audits[i].id = i /\ audits[i].created_at <= now
         /\ serial = [ audits |-> k, items |-> 0 ]
    /\ items = <<>>
    /\ users = <<>>
    /\ requests = <<>>
    /\ last = [ op |-> "init" ]

SpecRiskLatest == InitRiskLatest /\ [][NextRisk]_vars

----------------------------------------------------------------------------
(* Query Builder.  A list argument is modelled as the set of its elements;  *)
(* an empty list is the empty set.                                          *)

(* Python truth value of an optional list and of an optional datetime (a    *)
(* datetime object is always true).                                         *)
(* Mutation: a list criterion applied whenever it is supplied *)
TruthyList_supplied(a) == a # None

TruthyList(a) == a # None /\ a[1] # {}
TruthyDatetime(a) == a # None

(* Mutation: the status_list criterion is not applied *)
AuditMatches_noStatus(row, f) ==
    /\ IF TruthyList(f.property_ids)
       THEN SqlIn(Some(row.property_id), f.property_ids[1]) ELSE TRUE
    /\ IF TruthyList(f.auditor_ids)
       THEN SqlIn(row.auditor_id, f.auditor_ids[1]) ELSE TRUE
    /\ IF TruthyDatetime(f.date_from)
       THEN SqlGe(Some(row.created_at), f.date_from) ELSE TRUE
    /\ IF TruthyDatetime(f.date_to)
       THEN SqlLe(Some(row.created_at), f.date_to) ELSE TRUE
    /\ IF f.score_min # None
       THEN SqlGe(row.overall_score, f.score_min) ELSE TRUE
    /\ IF f.score_max # None
       THEN SqlLe(row.overall_score, f.score_max) ELSE TRUE
    /\ IF TruthyList(f.compliance_zones)
       THEN SqlIn(row.compliance_zone, f.compliance_zones[1]) ELSE TRUE

(* The chain of query.filter calls: a row is kept when every applied        *)
(* condition is true for it.                                                *)
AuditMatches(row, f) ==
    /\ IF TruthyList(f.property_ids)
       THEN SqlIn(Some(row.property_id), f.property_ids[1]) ELSE TRUE
    /\ IF TruthyList(f.auditor_ids)
       THEN SqlIn(row.auditor_id, f.auditor_ids[1]) ELSE TRUE
    /\ IF TruthyList(f.status_list)
       THEN SqlIn(Some(row.status), f.status_list[1]) ELSE TRUE
    /\ IF TruthyDatetime(f.date_from)
       THEN SqlGe(Some(row.created_at), f.date_from) ELSE TRUE
    /\ IF TruthyDatetime(f.date_to)
       THEN SqlLe(Some(row.created_at), f.date_to) ELSE TRUE
    /\ IF f.score_min # None
       THEN SqlGe(row.overall_score, f.score_min) ELSE TRUE
    /\ IF f.score_max # None
       THEN SqlLe(row.overall_score, f.score_max) ELSE TRUE
    /\ IF TruthyList(f.compliance_zones)
       THEN SqlIn(row.compliance_zone, f.compliance_zones[1]) ELSE TRUE

(* The query run: the matching audits, ORDER BY created_at DESC *)
build_audit_filter_query(f) ==
    /\ LET hits == { a \in AuditIds : AuditMatches(audits[a], f) }
       IN \E s \in SeqsOver(hits) :
            /\ \A i, j \in 1..Len(s) :
                 i < j => audits[s[i]].created_at >= audits[s[j]].created_at
            /\ last' = [ op |-> "build_audit_filter_query", args |-> f, ret |-> s ]
    /\ UNCHANGED <<now, users, properties, audits, items, serial, requests>>

----------------------------------------------------------------------------
(* The filter query run with at most MaxCriteria criteria supplied, on any  *)
(* database of audits that are unscored, scored, or scored and reviewed.    *)
(* Audits of property 1 have auditor 1 or none, audits of property 2 have   *)
(* auditor 2.  The query only reads, so a second run on the same database   *)
(* reaches no state the first run does not reach: one run is followed.      *)

FilterInstants == InstantsFrom({0})

FilterScoreArgs ==
    { [ overall_score |-> 0, cleanliness_score |-> None, branding_score |-> None,
        operational_score |-> None, compliance_zone |-> Some("red"),
        findings |-> None, action_plan |-> None ],
      [ overall_score |-> 70, cleanliness_score |-> None, branding_score |-> None,
        operational_score |-> None, compliance_zone |-> Some("amber"),
        findings |-> None, action_plan |-> None ] }

FilterAuditRows(id) ==
    LET fresh == { NewAuditRow(id, pa[1], pa[2], None, "scheduled", t) :
                     pa \in { <<1, None>>, <<1, Some(1)>>, <<2, Some(2)>> },
                     t \in FilterInstants }
        scored(r) == ScoredRow(r, CHOOSE a \in FilterScoreArgs : a.overall_score = 0,
                               r.created_at)
        reviewed(r) ==
            ReviewedRow(ScoredRow(r, CHOOSE a \in FilterScoreArgs : a.overall_score = 70,
                                  r.created_at),
                        7, r.created_at)
    IN fresh \cup { scored(r) : r \in fresh } \cup { reviewed(r) : r \in fresh }

Criteria ==
    { "property_ids", "auditor_ids", "status_list", "date_from", "date_to",
      "score_min", "score_max", "compliance_zones" }

FilterArgs ==
    { f \in [ property_ids : {None, Some({}), Some({1})},
              auditor_ids : {None, Some({}), Some({1})},
              status_list : {None, Some({}), Some({"submitted", "reviewed"})},
              date_from : {None, Some(1)},
              date_to : {None, Some(0)},
              score_min : {None, Some(0), Some(60)},
              score_max : {None, Some(0)},
              compliance_zones : {None, Some({}), Some({"amber"})} ] :
        Cardinality({ c \in Criteria : f[c] # None }) <= MaxCriteria }

InitFilter ==
    /\ now \in FilterInstants
    /\ properties = [ i \in 1..2 |-> NewPropertyRow(i, "green") ]
    /\ \E k \in 0..MaxAudits :
         /\ audits \in [ 1..k -> UNION { FilterAuditRows(i) : i \in 1..k } ]
         /\ \A i \in 1..k : audits[i].id = i /\ audits[i].created_at <= now
         /\ \A i, j \in 1..k : i < j => audits[i].created_at <= audits[j].created_at
         /\ serial = [ audits |-> k, items |-> 0 ]
    /\ items = <<>>
    /\ users = <<>>
    /\ requests = <<>>
    /\ last = [ op |-> "init" ]

BuildAuditFilterQuery ==
    /\ last.op = "init"
    /\ \E f \in FilterArgs : build_audit_filter_query(f)

NextFilter == BuildAuditFilterQuery

SpecFilter == InitFilter /\ [][NextFilter]_vars

----------------------------------------------------------------------------
(* AI endpoints.  An awaited gemini_service call either returns a dict or   *)
(* raises an exception with a message.  A dict is a function from its keys; *)
(* a response model is built from it when its required keys are there,      *)
(* otherwise the constructor raises.  A message is a sequence of parts.     *)
(* A response is a status code with a body (200) or a detail (an error).    *)

PhotoAnalysisRequired ==
    {"compliance_status", "confidence_score", "observations", "suggestions"}
ReportGenerationRequired ==
    {"summary", "key_findings", "recommendations", "compliance_overview", "ai_insights"}

ValidationMessage == "validation error: field required"

HttpError(code, detail) == [ status_code |-> code, detail |-> detail, body |-> None ]
HttpOk(body) == [ status_code |-> 200, detail |-> <<>>, body |-> Some(body) ]

(* str(e) of an HTTPException: the status code, then the detail *)
HttpErrorStr(e) == <<ToString(e.status_code)>> \o e.detail

(* Mutation: a failed call answered with a partly filled analysis *)
analyze_photo_fallback(request, outcome) ==
    /\ LET response ==
             IF outcome.kind = "raise"
             THEN HttpOk([ k \in {"compliance_status"} |-> "unknown" ])
             ELSE IF PhotoAnalysisRequired \subseteq DOMAIN outcome.value
             THEN HttpOk(outcome.value)
             ELSE HttpError(500, <<"Failed to analyze photo: ", ValidationMessage>>)
       IN last' = [ op |-> "analyze_photo", request |-> request, outcome |-> outcome,
                    ai_calls |-> 1, response |-> response ]
    /\ UNCHANGED <<now, users, properties, audits, items, serial, requests>>

analyze_photo(request, outcome) ==
    /\ LET response ==
             IF outcome.kind = "raise"
             THEN HttpError(500, <<"Failed to analyze photo: ">> \o outcome.message)
             ELSE IF PhotoAnalysisRequired \subseteq DOMAIN outcome.value
             THEN HttpOk(outcome.value)
             ELSE HttpError(500, <<"Failed to analyze photo: ", ValidationMessage>>)
       IN last' = [ op |-> "analyze_photo", request |-> request, outcome |-> outcome,
                    ai_calls |-> 1, response |-> response ]
    /\ UNCHANGED <<now, users, properties, audits, items, serial, requests>>

(* The payload generate_report builds from the audit and its items *)
AuditData(audit) ==
    [ audit_date |-> audit.created_at,
      audit_type |-> "Standard Audit",
      overall_score |-> audit.overall_score,
      compliance_zone |-> audit.compliance_zone,
      audit_items |-> { i \in ItemIds : items[i].audit_id = audit.id } ]

generate_report(audit_id, outcome) ==
    /\ IF audit_id \notin AuditIds
       THEN (* the 404 raised inside the try block is caught by its           *)
            (* "except Exception" and raised again as a 500                   *)
            LET not_found == HttpError(404, <<"Audit not found">>)
            IN last' = [ op |-> "generate_report", audit_id |-> audit_id,
                         outcome |-> outcome, ai_calls |-> 0, payload |-> None,
                         response |-> HttpError(500, <<"Failed to generate report: ">>
                                                       \o HttpErrorStr(not_found)) ]
       ELSE LET response ==
                  IF outcome.kind = "raise"
                  THEN HttpError(500, <<"Failed to generate report: ">> \o outcome.message)
                  ELSE IF ReportGenerationRequired \subseteq DOMAIN outcome.value
                  THEN HttpOk(outcome.value)
                  ELSE HttpError(500, <<"Failed to generate report: ", ValidationMessage>>)
            IN last' = [ op |-> "generate_report", audit_id |-> audit_id,
                         outcome |-> outcome, ai_calls |-> 1,
                         payload |-> Some(AuditData(audits[audit_id])),
                         response |-> response ]
    /\ UNCHANGED <<now, users, properties, audits, items, serial, requests>>

----------------------------------------------------------------------------
(* Requests to the AI endpoints while audits are created, with every        *)
(* outcome of the external call.                                            *)

AIInstants == InstantsFrom({0})
Causes == {"quota exceeded", "connection reset"}

PhotoOutcomes ==
    { [ kind |-> "return", value |-> [ k \in PhotoAnalysisRequired |-> "v" ] ],
      [ kind |-> "return", value |-> [ k \in PhotoAnalysisRequired \cup {"ai_score"} |-> "v" ] ],
      [ kind |-> "return", value |-> [ k \in {"compliance_status"} |-> "v" ] ] }
    \cup { [ kind |-> "raise", message |-> <<c>> ] : c \in Causes }

ReportOutcomes ==
    { [ kind |-> "return", value |-> [ k \in ReportGenerationRequired |-> "v" ] ],
      [ kind |-> "return", value |-> [ k \in {"summary"} |-> "v" ] ] }
    \cup { [ kind |-> "raise", message |-> <<c>> ] : c \in Causes }

PhotoRequests ==
    { [ image_base64 |-> "img", context |-> "lobby", audit_item_id |-> i ] :
        i \in {None, Some(1)} }

InitAI ==
    /\ now = 0
    /\ properties = <<>>
    /\ audits = <<>>
    /\ items = <<>>
    /\ serial = [ audits |-> 0, items |-> 0 ]
    /\ users = <<>>
    /\ requests = <<>>
    /\ last = [ op |-> "init" ]

AdvanceAI == Advance(AIInstants)
CreateAuditForAI ==
    /\ serial.audits < MaxAudits
    /\ create_audit(1, None, None, "scheduled")
AnalyzePhoto ==
    \E r \in PhotoRequests, o \in PhotoOutcomes : analyze_photo(r, o)
GenerateReport ==
    \E id \in AuditIds \cup {serial.audits + 1}, o \in ReportOutcomes :
        generate_report(id, o)

NextAI ==
    \/ AdvanceAI
    \/ CreateAuditForAI
    \/ AnalyzePhoto
    \/ GenerateReport

SpecAI == InitAI /\ [][NextAI]_vars

----------------------------------------------------------------------------
(* Login endpoints.  A hash verifies a password when it is the hash made    *)
(* from that password; an access token is known by the claims it was made   *)
(* from.                                                                    *)

verify_password(plain_password, hashed_password) ==
    hashed_password = get_password_hash(plain_password)

create_access_token(data) == <<"token", data.sub>>

(* db.query(User).filter(User.username == username).first(), on a table     *)
(* whose usernames are distinct                                             *)
get_user_by_username(username) ==
    LET found == { i \in UserIds : users[i].username = username }
    IN IF found = {} THEN None ELSE Some(users[CHOOSE i \in found : TRUE])

(* Mutation: the password is not verified *)
authenticate_user_anyPassword(username, password) ==
    get_user_by_username(username)

(* None stands for the False that authenticate_user returns *)
authenticate_user(username, password) ==
    LET user == get_user_by_username(username)
    IN IF user = None THEN None
       ELSE IF ~verify_password(password, user[1].password) THEN None
       ELSE user

Unauthorized == HttpError(401, <<"Incorrect username or password">>)

TokenResponse(user) ==
    HttpOk([ access_token |-> create_access_token([ sub |-> user.username ]),
             token_type |-> "bearer" ])

(* What login_form and login_json do with the username and password of the  *)
(* validated form or body                                                   *)
LoginResponse(username, password) ==
    LET user == authenticate_user(username, password)
    IN IF user = None THEN Unauthorized ELSE TokenResponse(user[1])

login_form(username, password) ==
    /\ last' = [ op |-> "login_form", username |-> username,
                 password |-> password,
                 response |-> LoginResponse(username, password) ]
    /\ UNCHANGED <<now, users, properties, audits, items, serial, requests>>

login_json(username, password) ==
    /\ last' = [ op |-> "login_json", username |-> username,
                 password |-> password,
                 response |-> LoginResponse(username, password) ]
    /\ UNCHANGED <<now, users, properties, audits, items, serial, requests>>

(* A request to /login-flexible: its content type, whether its body can be  *)
(* parsed as that type announces (as JSON when the type is neither JSON nor *)
(* a form), and the username and password fields of the parsed body, each   *)
(* absent or a string.                                                      *)
FlexibleResponse(request) ==
    LET isJson == request.content_type = "application/json"
        isForm == request.content_type \in
                      { "application/x-www-form-urlencoded", "multipart/form-data" }
        username == request.username
        password == request.password
    IN IF ~request.parses
       THEN IF isJson \/ isForm
            THEN HttpError(422, <<"Login processing error: ", "parse error">>)
            ELSE HttpError(422, <<"Invalid request format. Expected JSON or form data.">>)
       ELSE IF ~TruthyStr(username) \/ ~TruthyStr(password)
       THEN HttpError(422, <<"Username and password are required">>)
       ELSE LoginResponse(username[1], password[1])

login_flexible(request) ==
    /\ last' = [ op |-> "login_flexible", request |-> request,
                 response |-> FlexibleResponse(request) ]
    /\ UNCHANGED <<now, users, properties, audits, items, serial, requests>>

----------------------------------------------------------------------------
(* Users registered with distinct usernames, one of them possibly with an   *)
(* empty password, and the three login endpoints called with known and      *)
(* unknown usernames, right, wrong and empty passwords.                     *)

Usernames == { "alice", "bob" }
Passwords == { "secret", "" }
LoginUsernames == { "alice", "carol", "" }
LoginPasswords == { "secret", "wrong", "" }
ContentTypes == { "application/json", "application/x-www-form-urlencoded", "text/plain" }

FlexibleRequests ==
    { [ content_type |-> c, parses |-> TRUE, username |-> u, password |-> p ] :
        c \in ContentTypes,
        u \in {None} \cup { Some(x) : x \in LoginUsernames },
        p \in {None} \cup { Some(x) : x \in LoginPasswords } }
    \cup
    { [ content_type |-> c, parses |-> FALSE, username |-> None, password |-> None ] :
        c \in { "application/json", "text/plain" } }

RegisterUser ==
    \E u \in Usernames, p \in Passwords :
        /\ get_user_by_username(u) = None
        /\ create_user(u, p, "auditor", u, "u@x")
LoginForm ==
    \E u \in LoginUsernames, p \in LoginPasswords : login_form(u, p)
LoginJson ==
    \E u \in LoginUsernames, p \in LoginPasswords : login_json(u, p)
LoginFlexible == \E r \in FlexibleRequests : login_flexible(r)

NextAuth ==
    \/ RegisterUser
    \/ LoginForm
    \/ LoginJson
    \/ LoginFlexible

SpecAuth == InitWrites /\ [][NextAuth]_vars

----------------------------------------------------------------------------
(* C1: after update_property_status(property_id, score) on an existing      *)
(* property, status is green iff score >= 80, amber iff 60 <= score < 80,   *)
(* red iff score < 60; last_audit_score is the score; next_audit_date is    *)
(* the call time plus 90 days.                                              *)
C1_UpdatePropertyStatus ==
    (last.op = "update_property_status" /\ last.property_id \in PropertyIds) =>
        LET p == properties[last.property_id]
            s == last.score
        IN /\ (p.status = "green" <=> s >= 80)
           /\ (p.status = "amber" <=> (60 <= s /\ s < 80))
           /\ (p.status = "red" <=> s < 60)
           /\ p.last_audit_score = Some(s)
           /\ p.next_audit_date = Some(last.at + 90 * TicksPerDay)
           /\ last.ret = Some(p)

C1_Witness ==
    /\ last.op = "update_property_status"
    /\ last.property_id \in PropertyIds
    /\ last.score = 79
    /\ last.at > 0
    /\ properties[last.property_id].status = "amber"

----------------------------------------------------------------------------
(* C5: get_properties_needing_audit returns exactly the properties whose    *)
(* next_audit_date is null or earlier than today, each once, ordered by     *)
(* next_audit_date ascending with the null dates first.                     *)
C5_PropertiesNeedingAudit ==
    last.op = "get_properties_needing_audit" =>
        LET r == last.ret
            midnight == (now \div TicksPerDay) * TicksPerDay
            date(i) == properties[r[i]].next_audit_date
        IN /\ \A i, j \in 1..Len(r) : i # j => r[i] # r[j]
           /\ \A id \in PropertyIds :
                 (\E i \in 1..Len(r) : r[i] = id) <=>
                    (properties[id].next_audit_date = <<>>
                       \/ (properties[id].next_audit_date # <<>>
                             /\ properties[id].next_audit_date[1] < midnight))
           /\ \A i \in 1..Len(r) : r[i] \in PropertyIds
           /\ \A i, j \in 1..Len(r) :
                 (i < j /\ date(j) = <<>>) => date(i) = <<>>
           /\ \A i, j \in 1..Len(r) :
                 (i < j /\ date(i) # <<>> /\ date(j) # <<>>) => date(i)[1] <= date(j)[1]

(* A null-date property is listed before an overdue one, while a property   *)
(* whose date is not yet due is left out.                                   *)
C5_Witness ==
    /\ last.op = "get_properties_needing_audit"
    /\ Len(last.ret) = 2
    /\ properties[last.ret[1]].next_audit_date = None
    /\ properties[last.ret[2]].next_audit_date # None

C5_WitnessExcluded ==
    /\ last.op = "get_properties_needing_audit"
    /\ \E id \in PropertyIds :
         /\ properties[id].next_audit_date # None
         /\ properties[id].next_audit_date[1] < now
         /\ \A i \in 1..Len(last.ret) : last.ret[i] # id

----------------------------------------------------------------------------
(* C10: in every state reached by create_property, update_property_status   *)
(* and update_property_audit_schedules, a property whose last_audit_score   *)
(* is not null has the status the thresholds give that score: green if      *)
(* >= 80, amber if >= 60, else red.                                         *)
C10_PropertyStatusMatchesScore ==
    \A id \in PropertyIds :
        LET p == properties[id]
        IN p.last_audit_score # <<>> =>
             p.status = (IF p.last_audit_score[1] >= 80 THEN "green"
                         ELSE IF p.last_audit_score[1] >= 60 THEN "amber"
                         ELSE "red")

(* The schedule sweep has just moved the date of a scored property *)
C10_Witness ==
    /\ last.op = "update_property_audit_schedules"
    /\ last.ret >= 1
    /\ \E id \in PropertyIds :
         /\ properties[id].last_audit_score = Some(60)
         /\ properties[id].status = "amber"
         /\ properties[id].next_audit_date = Some(now + Days(AuditIntervalDays))

----------------------------------------------------------------------------
(* C2 as claimed: after update_audit_scores on an existing audit in any     *)
(* prior status, status is "submitted" and submitted_at is set; every       *)
(* optional field not supplied keeps its prior value and every optional     *)
(* field supplied takes the supplied value.                                 *)
C2_SuppliedFieldsWritten ==
    [][ (last'.op = "update_audit_scores" /\ last'.audit_id \in AuditIds) =>
          LET a == last'.args
              old == audits[last'.audit_id]
              new == audits'[last'.audit_id]
              Takes(arg, before, after) ==
                  IF arg = <<>> THEN after = before ELSE after = arg
          IN /\ new.status = "submitted"
             /\ new.submitted_at # <<>>
             /\ Takes(a.cleanliness_score, old.cleanliness_score, new.cleanliness_score)
             /\ Takes(a.branding_score, old.branding_score, new.branding_score)
             /\ Takes(a.operational_score, old.operational_score, new.operational_score)
             /\ Takes(a.compliance_zone, old.compliance_zone, new.compliance_zone)
             /\ Takes(a.findings, old.findings, new.findings)
             /\ Takes(a.action_plan, old.action_plan, new.action_plan)
      ]_vars

(* C2 amended: after update_audit_scores on an existing audit in any prior  *)
(* status, status is "submitted" and submitted_at is the call time; every   *)
(* optional field not supplied keeps its prior value; a supplied score      *)
(* (0 included) takes the supplied value; a supplied non-empty              *)
(* compliance_zone, findings or action_plan takes the supplied value, and   *)
(* a supplied empty one ("" or {}) leaves the field at its prior value.     *)
C2_NonEmptyFieldsWritten ==
    [][ (last'.op = "update_audit_scores" /\ last'.audit_id \in AuditIds) =>
          LET a == last'.args
              old == audits[last'.audit_id]
              new == audits'[last'.audit_id]
              Takes(arg, before, after) ==
                  IF arg = <<>> THEN after = before ELSE after = arg
              TakesNonEmpty(arg, empty, before, after) ==
                  IF arg = <<>> \/ arg = <<empty>> THEN after = before
                  ELSE after = arg
          IN /\ new.status = "submitted"
             /\ new.submitted_at = <<now>>
             /\ new.overall_score = <<a.overall_score>>
             /\ Takes(a.cleanliness_score, old.cleanliness_score, new.cleanliness_score)
             /\ Takes(a.branding_score, old.branding_score, new.branding_score)
             /\ Takes(a.operational_score, old.operational_score, new.operational_score)
             /\ TakesNonEmpty(a.compliance_zone, "", old.compliance_zone, new.compliance_zone)
             /\ TakesNonEmpty(a.findings, {}, old.findings, new.findings)
             /\ TakesNonEmpty(a.action_plan, {}, old.action_plan, new.action_plan)
      ]_vars

(* A reviewed audit is scored again with zero scores, an empty zone and     *)
(* empty dicts: the scores are written, the zone and the dicts are kept.    *)
C2_Witness ==
    /\ last.op = "update_audit_scores"
    /\ last.audit_id \in AuditIds
    /\ last.args.cleanliness_score = Some(0)
    /\ last.args.compliance_zone = Some("")
    /\ last.args.findings = Some({})
    /\ LET row == audits[last.audit_id]
       IN /\ row.status = "submitted"
          /\ row.reviewed_at # None
          /\ row.submitted_at = Some(now)
          /\ row.cleanliness_score = Some(0)
          /\ row.compliance_zone = Some("green")
          /\ row.findings = Some({"note"})

----------------------------------------------------------------------------
(* C9: in every state reached by create_audit, update_audit_scores and      *)
(* assign_reviewer, an audit whose compliance_zone is not null has the zone *)
(* its overall_score gives: green if >= 80, amber if >= 60, else red.       *)
C9_ZoneDerivedFromScore ==
    \A id \in AuditIds :
        LET r == audits[id]
        IN r.compliance_zone # <<>> =>
             /\ r.overall_score # <<>>
             /\ r.compliance_zone[1] =
                  (IF r.overall_score[1] >= 80 THEN "green"
                   ELSE IF r.overall_score[1] >= 60 THEN "amber"
                   ELSE "red")

----------------------------------------------------------------------------
(* C4 as claimed: cleanup_old_data(days) deletes only rows (items and       *)
(* audits) whose own created_at is strictly older than now minus days,      *)
(* returns the numbers of item rows and audit rows removed, and every row   *)
(* whose created_at is at or after the cutoff is still present afterwards.  *)
C4_DeletesByOwnCreatedAt ==
    [][ last'.op = "cleanup_old_data" =>
          LET cutoff == now - last'.days * TicksPerDay
          IN /\ \A i \in ItemIds :
                  items[i].created_at >= cutoff =>
                      (i \in DOMAIN items' /\ items'[i] = items[i])
             /\ \A a \in AuditIds :
                  audits[a].created_at >= cutoff =>
                      (a \in DOMAIN audits' /\ audits'[a] = audits[a])
             /\ DOMAIN items' \subseteq ItemIds
             /\ DOMAIN audits' \subseteq AuditIds
             /\ last'.ret.deleted_items = Cardinality(ItemIds \ DOMAIN items')
             /\ last'.ret.deleted_audits = Cardinality(AuditIds \ DOMAIN audits')
      ]_vars

(* C4 amended: cleanup_old_data(days) deletes exactly the audits whose      *)
(* created_at is strictly older than now minus days and exactly the items   *)
(* whose parent audit is such an audit (whatever the item's own             *)
(* created_at), the items being selected while their audits are still       *)
(* there; it returns the numbers of item rows and audit rows removed; every *)
(* audit created at or after the cutoff, and every item of such an audit,   *)
(* is still present and unchanged afterwards.                               *)
C4_DeletesByAuditCreatedAt ==
    [][ last'.op = "cleanup_old_data" =>
          LET cutoff == now - last'.days * TicksPerDay
              IsOld(a) == a \in AuditIds /\ audits[a].created_at < cutoff
          IN /\ DOMAIN audits' = { a \in AuditIds : ~IsOld(a) }
             /\ DOMAIN items' = { i \in ItemIds : ~IsOld(items[i].audit_id) }
             /\ \A a \in DOMAIN audits' : audits'[a] = audits[a]
             /\ \A i \in DOMAIN items' : items'[i] = items[i]
             /\ last'.ret.deleted_items = Cardinality(ItemIds \ DOMAIN items')
             /\ last'.ret.deleted_audits = Cardinality(AuditIds \ DOMAIN audits')
      ]_vars

(* A cleanup has removed an old audit with its item and kept an audit       *)
(* created exactly at the cutoff, with its item.                            *)
C4_Witness ==
    /\ last.op = "cleanup_old_data"
    /\ last.ret = [ deleted_items |-> 1, deleted_audits |-> 1 ]
    /\ \E a \in AuditIds :
         /\ audits[a].created_at = now - Days(last.days)
         /\ \E i \in ItemIds : items[i].audit_id = a

----------------------------------------------------------------------------
(* C3: the risk level of every row of get_risk_assessment is given by the   *)
(* ordered rules on (compliance_zone, days since the latest audit): zone    *)
(* red gives HIGH whatever the days; zone amber with days > 90 gives HIGH;  *)
(* zone amber otherwise gives MEDIUM; any other zone with days > 180 gives  *)
(* MEDIUM; everything else gives LOW.  Every row has exactly one of the     *)
(* three levels.                                                            *)
C3_RiskLevelRules ==
    last.op = "get_risk_assessment" =>
        \A k \in 1..Len(last.ret) :
            LET r == last.ret[k]
                z == r.compliance_zone
                d == r.days_since_audit
                red == z = <<"red">>
                amber == z = <<"amber">>
                over(n) == d # <<>> /\ d[1] > n
            IN /\ r.risk_level \in {"HIGH", "MEDIUM", "LOW"}
               /\ red => r.risk_level = "HIGH"
               /\ (amber /\ over(90)) => r.risk_level = "HIGH"
               /\ (amber /\ ~over(90)) => r.risk_level = "MEDIUM"
               /\ (~red /\ ~amber /\ over(180)) => r.risk_level = "MEDIUM"
               /\ (~red /\ ~amber /\ ~over(180)) => r.risk_level = "LOW"

(* An amber audit 91 days old is HIGH next to a property that is not        *)
(* amber at 90 days or less.                                                *)
C3_Witness ==
    /\ last.op = "get_risk_assessment"
    /\ \E k \in 1..Len(last.ret) :
         /\ last.ret[k].compliance_zone = Some("amber")
         /\ last.ret[k].days_since_audit = Some(91)
         /\ last.ret[k].risk_level = "HIGH"
    /\ \E k \in 1..Len(last.ret) :
         /\ last.ret[k].compliance_zone = Some("amber")
         /\ last.ret[k].days_since_audit = Some(90)
         /\ last.ret[k].risk_level = "MEDIUM"

C3_WitnessStale ==
    /\ last.op = "get_risk_assessment"
    /\ \E k \in 1..Len(last.ret) :
         /\ last.ret[k].compliance_zone = Some("green")
         /\ last.ret[k].days_since_audit = Some(181)
         /\ last.ret[k].risk_level = "MEDIUM"
    /\ \E k \in 1..Len(last.ret) :
         /\ last.ret[k].compliance_zone = None
         /\ last.ret[k].days_since_audit = Some(180)
         /\ last.ret[k].risk_level = "LOW"

----------------------------------------------------------------------------
(* C6 as claimed: build_audit_filter_query returns exactly the audits that  *)
(* satisfy every supplied criterion, a list criterion being satisfied by    *)
(* membership in the list, omitted criteria not restricting; ordered by     *)
(* created_at descending.  With no criteria it returns all audits.          *)
C6_SuppliedCriteriaConjoined ==
    last.op = "build_audit_filter_query" =>
        LET f == last.args
            r == last.ret
            InList(v, arg) == arg = <<>> \/ (v # <<>> /\ v[1] \in arg[1])
            AtLeast(v, arg) == arg = <<>> \/ (v # <<>> /\ v[1] >= arg[1])
            AtMost(v, arg) == arg = <<>> \/ (v # <<>> /\ v[1] <= arg[1])
            Satisfies(a) ==
                /\ InList(<<a.property_id>>, f.property_ids)
                /\ InList(a.auditor_id, f.auditor_ids)
                /\ InList(<<a.status>>, f.status_list)
                /\ AtLeast(<<a.created_at>>, f.date_from)
                /\ AtMost(<<a.created_at>>, f.date_to)
                /\ AtLeast(a.overall_score, f.score_min)
                /\ AtMost(a.overall_score, f.score_max)
                /\ InList(a.compliance_zone, f.compliance_zones)
        IN /\ \A i, j \in 1..Len(r) : i # j => r[i] # r[j]
           /\ { r[i] : i \in 1..Len(r) } = { a \in AuditIds : Satisfies(audits[a]) }
           /\ \A i, j \in 1..Len(r) :
                i < j => audits[r[i]].created_at >= audits[r[j]].created_at

(* C6 amended: build_audit_filter_query returns exactly the audits that     *)
(* satisfy every supplied criterion other than an empty list, a non-empty   *)
(* list criterion being satisfied by membership in the list; omitted        *)
(* criteria and empty lists do not restrict; ordered by created_at          *)
(* descending.  With no criteria it returns all audits.                     *)
C6_NonEmptyCriteriaConjoined ==
    last.op = "build_audit_filter_query" =>
        LET f == last.args
            r == last.ret
            InList(v, arg) ==
                arg = <<>> \/ arg = <<{}>> \/ (v # <<>> /\ v[1] \in arg[1])
            AtLeast(v, arg) == arg = <<>> \/ (v # <<>> /\ v[1] >= arg[1])
            AtMost(v, arg) == arg = <<>> \/ (v # <<>> /\ v[1] <= arg[1])
            Satisfies(a) ==
                /\ InList(<<a.property_id>>, f.property_ids)
                /\ InList(a.auditor_id, f.auditor_ids)
                /\ InList(<<a.status>>, f.status_list)
                /\ AtLeast(<<a.created_at>>, f.date_from)
                /\ AtMost(<<a.created_at>>, f.date_to)
                /\ AtLeast(a.overall_score, f.score_min)
                /\ AtMost(a.overall_score, f.score_max)
                /\ InList(a.compliance_zone, f.compliance_zones)
        IN /\ \A i, j \in 1..Len(r) : i # j => r[i] # r[j]
           /\ { r[i] : i \in 1..Len(r) } = { a \in AuditIds : Satisfies(audits[a]) }
           /\ \A i, j \in 1..Len(r) :
                i < j => audits[r[i]].created_at >= audits[r[j]].created_at
           /\ (\A c \in Criteria : f[c] = <<>>) => Len(r) = Cardinality(AuditIds)

(* property_ids = [1] with a status list: one audit of property 1 is        *)
(* returned, another is left out for its status.                            *)
C6_Witness ==
    /\ last.op = "build_audit_filter_query"
    /\ last.args.property_ids = Some({1})
    /\ last.args.status_list = Some({"submitted", "reviewed"})
    /\ Len(last.ret) = 1
    /\ audits[last.ret[1]].status = "reviewed"
    /\ \E a \in AuditIds :
         /\ audits[a].property_id = 1
         /\ audits[a].status = "scheduled"

(* No criteria: both audits, the later one first *)
C6_WitnessAll ==
    /\ last.op = "build_audit_filter_query"
    /\ \A c \in Criteria : last.args[c] = None
    /\ Len(last.ret) = 2
    /\ audits[last.ret[1]].created_at > audits[last.ret[2]].created_at

----------------------------------------------------------------------------
(* C7: generate_report answers 404 when the audit_id resolves to no audit,  *)
(* without calling the AI service, and 500 for every other failure.         *)
C7_NotFoundIs404 ==
    last.op = "generate_report" =>
        /\ last.audit_id \notin AuditIds =>
             (last.response.status_code = 404 /\ last.ai_calls = 0)
        /\ (last.audit_id \in AuditIds /\ last.response.status_code # 200) =>
             last.response.status_code = 500

----------------------------------------------------------------------------
(* C8: when the external call of analyze_photo fails, the endpoint answers  *)
(* 500 with a message that includes the cause, returns no analysis object,  *)
(* and has made the external call once.                                     *)
C8_AnalyzePhotoFailure ==
    (last.op = "analyze_photo" /\ last.outcome.kind = "raise") =>
        /\ last.response.status_code = 500
        /\ \E i \in 1..Len(last.response.detail) :
             <<last.response.detail[i]>> = last.outcome.message
        /\ last.response.body = <<>>
        /\ last.ai_calls = 1

C8_Witness ==
    /\ last.op = "analyze_photo"
    /\ last.outcome.kind = "raise"
    /\ last.outcome.message = <<"quota exceeded">>
    /\ last.response.status_code = 500

----------------------------------------------------------------------------
(* C11: an audit's status only moves forward along scheduled ->             *)
(* in_progress -> submitted -> reviewed -> completed: for any sequence of   *)
(* update_audit_scores and assign_reviewer calls on an audit created as     *)
(* scheduled, no call takes the status back to an earlier stage (a reviewed *)
(* audit never becomes submitted again).                                    *)
C11_StatusOnlyMovesForward ==
    [][ \A id \in AuditIds :
          LET Stage(st) == CASE st = "scheduled" -> 1
                             [] st = "in_progress" -> 2
                             [] st = "submitted" -> 3
                             [] st = "reviewed" -> 4
                             [] st = "completed" -> 5
          IN id \in DOMAIN audits' =>
                Stage(audits'[id].status) >= Stage(audits[id].status)
      ]_vars

----------------------------------------------------------------------------
(* C12: for any existing audit, whatever its prior status,                  *)
(* assign_reviewer(audit_id, reviewer_id) sets reviewer_id to the given     *)
(* reviewer, status to "reviewed" and reviewed_at to the current time, and  *)
(* leaves the audit's scores, compliance_zone, findings, action_plan,       *)
(* auditor_id and submitted_at unchanged.                                   *)
C12_AssignReviewerFrame ==
    [][ (last'.op = "assign_reviewer" /\ last'.audit_id \in AuditIds) =>
          LET old == audits[last'.audit_id]
              new == audits'[last'.audit_id]
          IN /\ new.reviewer_id = <<last'.reviewer_id>>
             /\ new.status = "reviewed"
             /\ new.reviewed_at = <<now>>
             /\ new.overall_score = old.overall_score
             /\ new.cleanliness_score = old.cleanliness_score
             /\ new.branding_score = old.branding_score
             /\ new.operational_score = old.operational_score
             /\ new.compliance_zone = old.compliance_zone
             /\ new.findings = old.findings
             /\ new.action_plan = old.action_plan
             /\ new.auditor_id = old.auditor_id
             /\ new.submitted_at = old.submitted_at
      ]_vars

(* A scored audit that one reviewer had reviewed is reviewed at a later     *)
(* time by the other reviewer: its scores and submission time are kept.     *)
C12_Witness ==
    /\ last.op = "assign_reviewer"
    /\ last.audit_id \in AuditIds
    /\ last.reviewer_id = 8
    /\ LET row == audits[last.audit_id]
       IN /\ row.status = "reviewed"
          /\ row.reviewer_id = Some(8)
          /\ row.reviewed_at = Some(now)
          /\ row.submitted_at # None
          /\ row.submitted_at # Some(now)
          /\ row.overall_score = Some(90)
          /\ row.cleanliness_score = Some(0)
          /\ row.findings = Some({"note"})

----------------------------------------------------------------------------
(* C13: update_property_audit_schedules sets next_audit_date to now plus 90 *)
(* days for every property whose next_audit_date is earlier than today,     *)
(* leaves every other property (future date or null date) and every other   *)
(* field unchanged, and returns the number of properties it updated.        *)
C13_ScheduleSweepFrame ==
    [][ last'.op = "update_property_audit_schedules" =>
          LET midnight == (now \div TicksPerDay) * TicksPerDay
              Passed(i) == /\ properties[i].next_audit_date # <<>>
                           /\ properties[i].next_audit_date[1] < midnight
          IN /\ DOMAIN properties' = DOMAIN properties
             /\ \A i \in DOMAIN properties :
                  IF Passed(i)
                  THEN /\ properties'[i].next_audit_date =
                              <<now + 90 * TicksPerDay>>
                       /\ properties'[i].id = properties[i].id
                       /\ properties'[i].status = properties[i].status
                       /\ properties'[i].last_audit_score =
                              properties[i].last_audit_score
                  ELSE properties'[i] = properties[i]
             /\ last'.ret = Cardinality({ i \in DOMAIN properties : Passed(i) })
             /\ audits' = audits
             /\ items' = items
      ]_vars

(* The sweep has moved the date of the one property that was overdue and    *)
(* left a property whose date has not passed.                               *)
C13_Witness ==
    /\ last.op = "update_property_audit_schedules"
    /\ last.ret = 1
    /\ \E i, j \in PropertyIds :
         /\ properties[i].next_audit_date = Some(now + Days(AuditIntervalDays))
         /\ properties[i].last_audit_score # None
         /\ properties[j].next_audit_date # None
         /\ properties[j].next_audit_date[1] >= Today(now)
         /\ properties[j].next_audit_date[1] < now + Days(AuditIntervalDays)

(* The sweep has left a property without a date as it was *)
C13_WitnessNull ==
    /\ last.op = "update_property_audit_schedules"
    /\ last.ret = 1
    /\ \E j \in PropertyIds : properties[j].next_audit_date = None

----------------------------------------------------------------------------
----------------------------------------------------------------------------
(* C15: every write addressed by an id (update_user,                        *)
(* update_property_status, update_audit_scores, assign_reviewer,            *)
(* update_audit_item_with_ai, update_audit_with_ai_report), called with an  *)
(* id that matches no row, returns a null result without raising and leaves *)
(* the whole database unchanged.                                            *)
C15_UnknownIdWritesNothing ==
    [][ LET op == last'.op
            unknownId ==
                CASE op = "update_user" -> last'.user_id \notin DOMAIN users
                  [] op = "update_property_status" ->
                         last'.property_id \notin DOMAIN properties
                  [] op \in {"update_audit_scores", "assign_reviewer",
                             "update_audit_with_ai_report"} ->
                         last'.audit_id \notin DOMAIN audits
                  [] op = "update_audit_item_with_ai" ->
                         last'.item_id \notin DOMAIN items
                  [] OTHER -> FALSE
        IN unknownId =>
              /\ last'.ret = <<>>
              /\ users' = users
              /\ properties' = properties
              /\ audits' = audits
              /\ items' = items
              /\ serial' = serial
      ]_vars

(* update_user has been called with an id that matches no user, on a        *)
(* database with a row in every table.                                      *)
C15_Witness ==
    /\ last.op = "update_user"
    /\ last.user_id \notin UserIds
    /\ last.ret = None
    /\ users # <<>>
    /\ properties # <<>>
    /\ AuditIds # {}
    /\ ItemIds # {}

----------------------------------------------------------------------------
(* C16: in a store where every audit item has an existing parent audit, a   *)
(* completed cleanup_old_data never deletes an audit while leaving one of   *)
(* its items behind and never deletes an item whose parent audit is         *)
(* retained; after the cleanup every remaining item still has an existing   *)
(* parent audit.                                                            *)
C16_ItemsFollowTheirAudit ==
    [][ ( /\ last'.op = "cleanup_old_data"
          /\ \A i \in ItemIds : items[i].audit_id \in AuditIds ) =>
          /\ \A a \in AuditIds \ DOMAIN audits' :
                \A i \in DOMAIN items' : items'[i].audit_id # a
          /\ \A i \in ItemIds \ DOMAIN items' :
                items[i].audit_id \notin DOMAIN audits'
          /\ \A i \in DOMAIN items' : items'[i].audit_id \in DOMAIN audits'
      ]_vars

(* A cleanup with the default retention has deleted one old audit with its  *)
(* item and has kept the item of an audit that it retained.                 *)
C16_Witness ==
    /\ last.op = "cleanup_old_data"
    /\ last.days = RetentionDays
    /\ last.ret = [ deleted_items |-> 1, deleted_audits |-> 1 ]
    /\ \E i \in ItemIds : items[i].audit_id \in AuditIds

----------------------------------------------------------------------------
(* C17: when two requests run update_property_status concurrently on the    *)
(* same property (each reads the row, computes status and score, then       *)
(* writes and commits, in any interleaving), both complete and the final    *)
(* status of the property is the threshold classification of its final      *)
(* last_audit_score.                                                        *)
C17_ConcurrentStatusMatchesScore ==
    \A id \in PropertyIds :
        ( \A r \in RequestIds :
            /\ requests[r].pc = "done"
            /\ requests[r].property_id = id
            /\ requests[r].ret # <<>> ) =>
        LET p == properties[id]
        IN /\ p.last_audit_score # <<>>
           /\ p.status = (IF p.last_audit_score[1] >= 80 THEN "green"
                          ELSE IF p.last_audit_score[1] >= 60 THEN "amber"
                          ELSE "red")

----------------------------------------------------------------------------
(* C18: for audits created with the default status, after any sequence of   *)
(* update_audit_scores and assign_reviewer calls: an audit with status      *)
(* "submitted" has submitted_at and overall_score set, and an audit with    *)
(* status "reviewed" has reviewed_at set and has as reviewer_id the         *)
(* argument of the most recent assign_reviewer call made for it (the step   *)
(* that leaves it reviewed is either such a call, or a step that finds it   *)
(* reviewed and does not touch its reviewer_id).                            *)
C18_StatusImpliesFields ==
    [][ \A id \in DOMAIN audits' :
          LET new == audits'[id]
          IN /\ new.status = "submitted" =>
                  (new.submitted_at # <<>> /\ new.overall_score # <<>>)
             /\ new.status = "reviewed" =>
                  /\ new.reviewed_at # <<>>
                  /\ IF last'.op = "assign_reviewer" /\ last'.audit_id = id
                     THEN new.reviewer_id = <<last'.reviewer_id>>
                     ELSE /\ id \in DOMAIN audits
                          /\ audits[id].status = "reviewed"
                          /\ new.reviewer_id = audits[id].reviewer_id
      ]_vars

(* A scored audit reviewed by reviewer 8 stays reviewed by 8 while          *)
(* assign_reviewer is called with reviewer 7 for an id that matches no      *)
(* audit.                                                                   *)
C18_Witness ==
    /\ last.op = "assign_reviewer"
    /\ last.audit_id \notin AuditIds
    /\ last.reviewer_id = 7
    /\ \E id \in AuditIds :
         /\ audits[id].status = "reviewed"
         /\ audits[id].reviewer_id = Some(8)
         /\ audits[id].reviewed_at # None
         /\ audits[id].submitted_at # None

(* A reviewed audit has been scored again: it is submitted, with its score  *)
(* and submission time set.                                                 *)
C18_WitnessSubmitted ==
    /\ last.op = "update_audit_scores"
    /\ \E id \in AuditIds :
         /\ audits[id].status = "submitted"
         /\ audits[id].reviewed_at # None
         /\ audits[id].submitted_at = Some(now)
         /\ audits[id].overall_score = Some(50)

----------------------------------------------------------------------------
(* C19: no operation of the library moves an audit to "in_progress" or      *)
(* "completed": an audit created with the default status "scheduled" only   *)
(* ever has status scheduled, submitted or reviewed, so the aggregates over *)
(* the completed audits (get_compliance_dashboard) count none of those      *)
(* audits.                                                                  *)
C19_NeverCompleted ==
    /\ \A id \in AuditIds :
         audits[id].status \in {"scheduled", "submitted", "reviewed"}
    /\ last.op = "get_compliance_dashboard" =>
         /\ last.ret.total_properties = 0
         /\ last.ret.total_audits = 0
         /\ last.ret.avg_overall_score.sum = 0
         /\ last.ret.green_audits = 0
         /\ last.ret.amber_audits = 0
         /\ last.ret.red_audits = 0

(* The dashboard is read while the property has a scored, reviewed audit in *)
(* the green zone.                                                          *)
C19_Witness ==
    /\ last.op = "get_compliance_dashboard"
    /\ \E id \in AuditIds, p \in PropertyIds :
         /\ audits[id].property_id = properties[p].id
         /\ audits[id].status = "reviewed"
         /\ audits[id].overall_score = Some(90)
         /\ audits[id].compliance_zone = Some("green")

----------------------------------------------------------------------------
(* C20: in build_audit_filter_query an empty list passed for a list-valued  *)
(* criterion (property_ids, auditor_ids, status_list, compliance_zones) is  *)
(* treated exactly like an omitted criterion: the call returns the audits   *)
(* that the same call without that argument returns, not the empty set;     *)
(* whereas score_min = 0 and score_max = 0 are applied as real bounds on    *)
(* overall_score.                                                           *)
C20_EmptyListIsOmitted ==
    last.op = "build_audit_filter_query" =>
        LET f == last.args
            returned == { last.ret[i] : i \in 1..Len(last.ret) }
            Result(g) == { a \in AuditIds : AuditMatches(audits[a], g) }
        IN /\ f.property_ids = <<{}>> =>
                 returned = Result([ f EXCEPT !.property_ids = <<>> ])
           /\ f.auditor_ids = <<{}>> =>
                 returned = Result([ f EXCEPT !.auditor_ids = <<>> ])
           /\ f.status_list = <<{}>> =>
                 returned = Result([ f EXCEPT !.status_list = <<>> ])
           /\ f.compliance_zones = <<{}>> =>
                 returned = Result([ f EXCEPT !.compliance_zones = <<>> ])
           /\ f.score_min = <<0>> =>
                 \A a \in returned : /\ audits[a].overall_score # <<>>
                                     /\ audits[a].overall_score[1] >= 0
           /\ f.score_max = <<0>> =>
                 \A a \in returned : /\ audits[a].overall_score # <<>>
                                     /\ audits[a].overall_score[1] <= 0

(* A call with an empty status_list and score_min = 0 returns a scored      *)
(* audit and leaves out an audit that has no score.                         *)
C20_Witness ==
    /\ last.op = "build_audit_filter_query"
    /\ last.args.status_list = Some({})
    /\ last.args.score_min = Some(0)
    /\ Len(last.ret) >= 1
    /\ \E a \in AuditIds :
         /\ audits[a].overall_score = None
         /\ \A i \in 1..Len(last.ret) : last.ret[i] # a

(* A call with an empty property_ids and score_max = 0 returns the audit    *)
(* scored 0 and leaves out an audit scored 70.                              *)
C20_WitnessMax ==
    /\ last.op = "build_audit_filter_query"
    /\ last.args.property_ids = Some({})
    /\ last.args.score_max = Some(0)
    /\ Len(last.ret) >= 1
    /\ \E a \in AuditIds :
         /\ audits[a].overall_score = Some(70)
         /\ \A i \in 1..Len(last.ret) : last.ret[i] # a

----------------------------------------------------------------------------
(* C21 as stated: /login, /login-json and /login-flexible issue an access   *)
(* token if and only if a user with the given username exists and the       *)
(* password verifies against that user's stored hash; otherwise they        *)
(* respond 401 and issue no token, except that /login-flexible responds 422 *)
(* when username or password is missing or the body cannot be parsed; for   *)
(* the same credentials the three endpoints give the same outcome.          *)
C21_TokenIffAuthenticated ==
    LET Authenticates(u, p) ==
            \E i \in UserIds : /\ users[i].username = u
                               /\ verify_password(p, users[i].password)
        Outcome(u, p, response) ==
            IF Authenticates(u, p)
            THEN /\ response.status_code = 200
                 /\ response.body # <<>>
                 /\ response.body[1].access_token = <<"token", u>>
            ELSE /\ response.status_code = 401
                 /\ response.body = <<>>
    IN /\ last.op \in {"login_form", "login_json"} =>
             Outcome(last.username, last.password, last.response)
       /\ last.op = "login_flexible" =>
             IF \/ ~last.request.parses
                \/ last.request.username = <<>>
                \/ last.request.password = <<>>
             THEN /\ last.response.status_code = 422
                  /\ last.response.body = <<>>
             ELSE Outcome(last.request.username[1], last.request.password[1],
                          last.response)

(* C21 amended: /login and /login-json issue an access token if and only if *)
(* a user with the given username exists and the given password verifies    *)
(* against that user's stored hash, and respond 401 without a token         *)
(* otherwise, an empty username or password being credentials like any      *)
(* other.  /login-flexible responds 422 without a token when the body       *)
(* cannot be parsed or when username or password is missing or empty, and   *)
(* otherwise gives the outcome of the other two, so that the three          *)
(* endpoints agree on the same non-empty credentials.                       *)
C21_TokenIffAuthenticatedOrEmpty ==
    LET Authenticates(u, p) ==
            \E i \in UserIds : /\ users[i].username = u
                               /\ verify_password(p, users[i].password)
        Outcome(u, p, response) ==
            IF Authenticates(u, p)
            THEN /\ response.status_code = 200
                 /\ response.body # <<>>
                 /\ response.body[1].access_token = <<"token", u>>
            ELSE /\ response.status_code = 401
                 /\ response.body = <<>>
    IN /\ last.op \in {"login_form", "login_json"} =>
             Outcome(last.username, last.password, last.response)
       /\ last.op = "login_flexible" =>
             IF \/ ~last.request.parses
                \/ last.request.username \in { <<>>, <<"">> }
                \/ last.request.password \in { <<>>, <<"">> }
             THEN /\ last.response.status_code = 422
                  /\ last.response.body = <<>>
             ELSE Outcome(last.request.username[1], last.request.password[1],
                          last.response)

(* /login-flexible has refused with 422 the empty password of a user whose  *)
(* stored hash is that of the empty password.                               *)
C21_Witness ==
    /\ last.op = "login_flexible"
    /\ last.request.parses
    /\ last.request.password = Some("")
    /\ last.response.status_code = 422
    /\ \E i \in UserIds :
         /\ Some(users[i].username) = last.request.username
         /\ verify_password("", users[i].password)

(* /login-flexible has issued a token for a right non-empty password *)
C21_WitnessToken ==
    /\ last.op = "login_flexible"
    /\ last.request.username = Some("alice")
    /\ last.response.status_code = 200
    /\ Len(users) = 2

(* /login-json has issued a token for the empty password of such a user *)
C21_WitnessJsonEmpty ==
    /\ last.op = "login_json"
    /\ last.password = ""
    /\ last.response.status_code = 200

----------------------------------------------------------------------------
(* C22: get_risk_assessment returns exactly one row per property, whose     *)
(* score, zone and age are those of the audit with the greatest id among    *)
(* the property's audits, whatever the audits' created_at; a property       *)
(* without audits appears with no audit and risk level LOW; the rows come   *)
(* red zone first, then amber, then all others.                             *)
C22_OneRowPerPropertyLatestById ==
    last.op = "get_risk_assessment" =>
        LET rows == last.ret
            Own(p) == { a \in DOMAIN audits : audits[a].property_id = p }
            Group(z) == IF z = <<"red">> THEN 1 ELSE IF z = <<"amber">> THEN 2 ELSE 3
        IN /\ Len(rows) = Len(properties)
           /\ \A p \in DOMAIN properties :
                \E k \in 1..Len(rows) :
                    /\ rows[k].property_id = p
                    /\ \A j \in 1..Len(rows) : rows[j].property_id = p => j = k
                    /\ IF Own(p) = {}
                       THEN /\ rows[k].audit_id = <<>>
                            /\ rows[k].overall_score = <<>>
                            /\ rows[k].compliance_zone = <<>>
                            /\ rows[k].days_since_audit = <<>>
                            /\ rows[k].risk_level = "LOW"
                       ELSE \E a \in Own(p) :
                            /\ \A b \in Own(p) : b <= a
                            /\ rows[k].audit_id = <<a>>
                            /\ rows[k].overall_score = audits[a].overall_score
                            /\ rows[k].compliance_zone = audits[a].compliance_zone
                            /\ rows[k].days_since_audit =
                                 << DayOf(now) - DayOf(audits[a].created_at) >>
           /\ \A i, j \in 1..Len(rows) :
                i < j => Group(rows[i].compliance_zone) <= Group(rows[j].compliance_zone)

(* A property's row is taken from its red audit 2, created a day before its *)
(* green audit 1, and comes before the row of a property without audits,    *)
(* which is LOW.                                                            *)
C22_Witness ==
    /\ last.op = "get_risk_assessment"
    /\ Len(audits) = 2
    /\ audits[1].property_id = 1 /\ audits[2].property_id = 1
    /\ audits[2].created_at < audits[1].created_at
    /\ audits[1].compliance_zone = Some("green")
    /\ audits[2].compliance_zone = Some("red")
    /\ Len(last.ret) = 2
    /\ last.ret[1].property_id = 1
    /\ last.ret[1].audit_id = Some(2)
    /\ last.ret[1].risk_level = "HIGH"
    /\ last.ret[2].property_id = 2
    /\ last.ret[2].audit_id = None
    /\ last.ret[2].risk_level = "LOW"

(* An amber row stands between a red row's group and a green row: the       *)
(* amber property is listed before the green one.                           *)
C22_WitnessOrder ==
    /\ last.op = "get_risk_assessment"
    /\ Len(last.ret) = 2
    /\ last.ret[1].compliance_zone = Some("amber")
    /\ last.ret[1].property_id = 2
    /\ last.ret[2].compliance_zone = Some("green")

====
